---- MODULE Spec2Model ----
(***************************************************************************)
(* Model of the MSVA workflow orchestration engine:                        *)
(*   src/orchestration/base_orchestrator.py   (BaseOrchestrator)           *)
(*   src/orchestration/startup_validator.py   (StartupValidatorOrchestrator)*)
(*                                                                         *)
(* Python mappings (dict) are TLA+ functions whose DOMAIN is the key set,  *)
(* lists are sequences, Optional values are sequences of length 0 or 1.    *)
(* One action is one run of the event loop between two suspension points   *)
(* (an awaited agent.process call, or the blocking console input()).       *)
(***************************************************************************)
EXTENDS Integers, Sequences, FiniteSets, TLC

VARIABLES
    config,            \* OrchestratorConfig (read-only after construction)
    agents,            \* self.agents: the registered agent names
    current_workflow,  \* self.current_workflow ("None" when idle)
    results_store,     \* self.results_store: key -> saved result
    run,               \* per caller: the execute_workflow coroutine's frame
    gate,              \* the get_human_feedback call in progress / last made
    score_in,          \* the four payloads handed to _calculate_validation_score
    score_out          \* what _calculate_validation_score produced for score_in

vars == <<config, agents, current_workflow, results_store, run, gate, score_in, score_out>>

---------------------------------------------------------------------------
(* Bounds of the model *)

\* config.max_retries ranges over 1..MaxRetriesBound
MaxRetriesBound == 2

---------------------------------------------------------------------------
(* Python values *)

EmptyDict == [k \in {} |-> 0]
NoneVal == <<>>
Some(v) == <<v>>

Has(d, k) == k \in DOMAIN d
Get(d, k, default) == IF k \in DOMAIN d THEN d[k] ELSE default
\* truth value of a mapping, a list or a string: non-empty
Truthy(v) == DOMAIN v # {}
\* truth value of an Optional[Dict] argument: not None and non-empty
TruthyOpt(o) == o # NoneVal /\ Truthy(o[1])

Min2(a, b) == IF a < b THEN a ELSE b
Max2(a, b) == IF a > b THEN a ELSE b

RECURSIVE Join(_, _)
Join(seq, sep) ==
    IF Len(seq) = 0 THEN ""
    ELSE IF Len(seq) = 1 THEN seq[1]
    ELSE seq[1] \o sep \o Join(Tail(seq), sep)

Contains(s, sub) ==
    \E i \in 1..(Len(s) - Len(sub) + 1) : SubSeq(s, i, i + Len(sub) - 1) = sub

Exc(type, msg) == [type |-> type, msg |-> msg]
Returned(v) == [kind |-> "returned", value |-> v]
Raised(e) == [kind |-> "raised", exc |-> e]
NoOutcome == [kind |-> "none"]

AgentOutputFields == {"agent_name", "message_type", "content", "success"}
AgentOutput(agent_name, message_type, content, success) ==
    [agent_name |-> agent_name, message_type |-> message_type,
     content |-> content, success |-> success]
IsAgentOutput(v) == DOMAIN v = AgentOutputFields

AgentNames ==
    {"market_researcher", "competitor_analyzer", "customer_persona_generator", "mvp_planner"}

workflows == {"full_validation", "market_only", "mvp_only"}

required_keys == <<"market_data", "competitor_data", "customer_personas">>

Range(seq) == {seq[i] : i \in DOMAIN seq}

\* startup_idea.dict() of the parsed idea; now() is one abstract instant
Idea == [name |-> "Acme", description |-> "an idea"]
Now == "now"

---------------------------------------------------------------------------
(* Report Synthesizer: the score *)

Direct(n) == [i \in 1..n |-> [type |-> "direct"]]
Gaps(n) == [i \in 1..n |-> "gap"]

NumDirect(competitors) ==
    Cardinality({i \in DOMAIN competitors : Get(competitors[i], "type", "None") = "direct"})

MarketSizeAdj(market_size) ==
    IF market_size > 1000000000 THEN 10
    ELSE IF market_size > 100000000 THEN 5
    ELSE IF market_size < 10000000 THEN -5
    ELSE 0

GrowthRateAdj(growth_rate) ==
    IF growth_rate > 20 THEN 10
    ELSE IF growth_rate > 10 THEN 5
    ELSE IF growth_rate < 5 THEN -5
    ELSE IF growth_rate < 0 THEN -10
    ELSE 0

MarketAdj(market_data) ==
    IF Has(market_data, "market_trends")
    THEN LET trends == market_data["market_trends"]
         IN (IF Has(trends, "market_size") THEN MarketSizeAdj(trends["market_size"]) ELSE 0)
          + (IF Has(trends, "growth_rate") THEN GrowthRateAdj(trends["growth_rate"]) ELSE 0)
    ELSE 0

CompetitorAdj(competitor_data) ==
    IF Has(competitor_data, "competitors")
    THEN LET num_direct == NumDirect(competitor_data["competitors"])
         IN (IF num_direct = 0 THEN 5 ELSE IF num_direct > 10 THEN -5 ELSE 0)
          + (IF Has(competitor_data, "market_gaps") /\ Truthy(competitor_data["market_gaps"])
             THEN 5 + (IF Len(competitor_data["market_gaps"]) > 3 THEN 5 ELSE 0)
             ELSE 0)
    ELSE 0

PainLevelAdj(pain_level) ==
    IF pain_level = "high" THEN 10
    ELSE IF pain_level = "medium" THEN 5
    ELSE IF pain_level = "low" THEN -5
    ELSE 0

WillingnessAdj(wtp) ==
    IF wtp = "high" THEN 5 ELSE IF wtp = "low" THEN -5 ELSE 0

PersonaAdj(persona_data) ==
    IF Has(persona_data, "personas") /\ Truthy(persona_data["personas"])
    THEN LET primary == persona_data["personas"][1]
         IN (IF Has(primary, "pain_level") THEN PainLevelAdj(primary["pain_level"]) ELSE 0)
          + (IF Has(primary, "willingness_to_pay")
             THEN WillingnessAdj(primary["willingness_to_pay"]) ELSE 0)
    ELSE 0

DevTimeInclusive(dev_time) ==
    IF dev_time <= 6 THEN 5 ELSE IF dev_time >= 12 THEN -5 ELSE 0

DevTimeAdj(dev_time) ==
    IF dev_time < 6 THEN 5 ELSE IF dev_time > 12 THEN -5 ELSE 0

MinCostAdj(min_cost) ==
    IF min_cost < 15000 THEN 5 ELSE IF min_cost > 50000 THEN -5 ELSE 0

\* mvp_data["development_time"]["weeks"] raises KeyError when "weeks" is absent
DevTimeRaises(mvp_data) ==
    Has(mvp_data, "development_time") /\ ~Has(mvp_data["development_time"], "weeks")

MvpAdj(mvp_data) ==
      (IF Has(mvp_data, "development_time")
       THEN DevTimeAdj(mvp_data["development_time"]["weeks"]) ELSE 0)
    + (IF Has(mvp_data, "cost_estimate")
       THEN MinCostAdj(Get(mvp_data["cost_estimate"], "min", 0)) ELSE 0)

ClampNoCeiling(score) == Max2(0, score)
Clamp(score) == Max2(0, Min2(100, score))

\* the score before the clamp of line 497
ScoreSum(market_data, competitor_data, persona_data, mvp_data) ==
    50 + MarketAdj(market_data) + CompetitorAdj(competitor_data)
       + PersonaAdj(persona_data) + MvpAdj(mvp_data)

_calculate_validation_score(market_data, competitor_data, persona_data, mvp_data) ==
    IF DevTimeRaises(mvp_data)
    THEN Raised(Exc("KeyError", "'weeks'"))
    ELSE Returned(Clamp(ScoreSum(market_data, competitor_data, persona_data, mvp_data)))

---------------------------------------------------------------------------
(* Report Synthesizer: recommendations and report builders *)

FirstThree(seq) == SubSeq(seq, 1, Min2(3, Len(seq)))

SelectRisks(items) == SelectSeq(items, LAMBDA item : item["type"] = "risk")

_generate_recommendations(market_data, competitor_data, persona_data, mvp_data) ==
    LET market ==
            IF Has(market_data, "market_trends")
            THEN LET trends == market_data["market_trends"]
                 IN IF Has(trends, "growth_rate") /\ trends["growth_rate"] < 5
                    THEN <<"Consider pivoting to a higher-growth market segment as the current market shows low growth.">>
                    ELSE IF Has(trends, "growth_rate") /\ trends["growth_rate"] > 20
                    THEN <<"The market is growing rapidly. Consider securing funding quickly to capitalize on growth opportunities.">>
                    ELSE <<>>
            ELSE <<>>
        gaps ==
            IF Has(competitor_data, "market_gaps") /\ Truthy(competitor_data["market_gaps"])
            THEN <<"Focus on these identified gaps in the market: "
                     \o Join(FirstThree(competitor_data["market_gaps"]), ", ")>>
            ELSE <<>>
        pains ==
            IF Has(persona_data, "personas") /\ Truthy(persona_data["personas"])
               /\ Has(persona_data["personas"][1], "pain_points")
            THEN <<"Prioritize addressing these customer pain points: "
                     \o Join(FirstThree(persona_data["personas"][1]["pain_points"]), ", ")>>
            ELSE <<>>
        features ==
            IF Has(mvp_data, "features") /\ Truthy(mvp_data["features"])
            THEN <<"Focus on building and validating the core MVP features before expanding scope.">>
            ELSE <<>>
        risks ==
            IF Has(mvp_data, "assumptions_and_risks")
               /\ Truthy(SelectRisks(mvp_data["assumptions_and_risks"]))
            THEN <<"Mitigate key risks early: "
                     \o SelectRisks(mvp_data["assumptions_and_risks"])[1]["description"]>>
            ELSE <<>>
        specific == market \o gaps \o pains \o features \o risks
    IN IF Len(specific) < 3
       THEN specific \o <<"Validate your assumptions with real customer interviews before building the MVP.",
                          "Consider running small experiments to test key hypotheses about your target market.">>
       ELSE specific

\* StartupValidationReport(...).dict(), given the score already computed
_generate_validation_report(idea, market_data, competitor_data, persona_data, mvp_data, validation_score) ==
    [idea |-> idea,
     market_analysis |-> market_data,
     competitor_analysis |-> competitor_data,
     customer_personas |-> Get(persona_data, "personas", <<>>),
     mvp_plan |-> mvp_data,
     recommendations |->
         _generate_recommendations(market_data, competitor_data, persona_data, mvp_data),
     validation_score |-> validation_score,
     timestamp |-> Now]

\* market_data, competitor_data, persona_data are Optional[Dict]
_generate_error_report(error_message, idea, market_data, competitor_data, persona_data) ==
    (IF TruthyOpt(persona_data)
     THEN [customer_personas |-> Get(persona_data[1], "personas", <<>>)] ELSE EmptyDict)
    @@ (IF TruthyOpt(competitor_data)
        THEN [competitor_analysis |-> competitor_data[1]] ELSE EmptyDict)
    @@ (IF TruthyOpt(market_data)
        THEN [market_analysis |-> market_data[1]] ELSE EmptyDict)
    @@ [success |-> FALSE, error |-> error_message, idea |-> idea, timestamp |-> Now]

_generate_interim_report(idea, market_data, competitor_data, persona_data) ==
    [success |-> TRUE, idea |-> idea, market_analysis |-> market_data,
     competitor_analysis |-> competitor_data,
     customer_personas |-> Get(persona_data, "personas", <<>>),
     timestamp |-> Now, status |-> "interim",
     message |-> "MVP planning was skipped due to user request"]

\* StartupIdea parsing: input.idea is the kind of value under the "idea" key,
\* input.root_ok whether the root-level keys form a valid StartupIdea
_parse_startup_idea(input) ==
    IF input.idea = "dict_ok" \/ input.idea = "instance"
    THEN Returned(Idea)
    ELSE IF input.idea = "dict_bad"
    THEN Raised(Exc("ValidationError", "validation error for StartupIdea"))
    ELSE IF input.root_ok
    THEN Returned(Idea)
    ELSE Raised(Exc("ValueError", "Invalid startup idea format"))

---------------------------------------------------------------------------
(* What the collaborators may hand back *)

MarketStrong == [market_trends |-> [market_size |-> 2000000000, growth_rate |-> 25]]
CompetitorOpen == [competitors |-> <<>>, market_gaps |-> <<"gap">>]
PersonaKeen == [personas |-> <<[pain_level |-> "high", willingness_to_pay |-> "high"]>>]
MvpLean == [development_time |-> [weeks |-> 5], cost_estimate |-> [min |-> 10000]]
MvpNoWeeks == [development_time |-> [months |-> 2]]
\* the shape the shipped agents return when they give up
StatusError == [status |-> "error", message |-> "No startup idea provided", data |-> NoneVal]

Scored(agent_name) ==
    CASE agent_name = "market_researcher" -> MarketStrong
      [] agent_name = "competitor_analyzer" -> CompetitorOpen
      [] agent_name = "customer_persona_generator" -> PersonaKeen
      [] agent_name = "mvp_planner" -> MvpLean

\* plain mappings an agent's process() may return
Mappings(agent_name) ==
    {EmptyDict, Scored(agent_name)}
      \cup (IF agent_name = "market_researcher" THEN {StatusError} ELSE {})
      \cup (IF agent_name = "mvp_planner" THEN {MvpNoWeeks} ELSE {})

\* AgentOutput objects an agent's process() may return instead of a mapping
Shaped(agent_name) ==
    {AgentOutput(agent_name, "error", [error |-> "reported by agent"], FALSE)}
      \cup (IF agent_name = "market_researcher"
            THEN {AgentOutput(agent_name, "result", Scored(agent_name), TRUE)} ELSE {})

\* every value an agent's process() may return
AgentResults(agent_name) == Mappings(agent_name) \cup Shaped(agent_name)

AgentFailure == Exc("RuntimeError", "agent failed")
\* asyncio.TimeoutError() carries no message: str(e) is the empty string
TimeoutError == Exc("TimeoutError", "")

\* the shapes of input_data that _parse_startup_idea tells apart
InputShapes ==
    {[idea |-> "dict_ok", root_ok |-> FALSE], [idea |-> "dict_bad", root_ok |-> FALSE],
     [idea |-> "instance", root_ok |-> FALSE], [idea |-> "absent", root_ok |-> TRUE],
     [idea |-> "absent", root_ok |-> FALSE], [idea |-> "other", root_ok |-> TRUE],
     [idea |-> "other", root_ok |-> FALSE]}

\* input_data: its shape, and which upstream keys it carries. Only mvp_only reads
\* the keys, and only once the idea is parsed: every shape comes with all the keys,
\* and every subset of the keys with a parseable shape
Inputs(workflow_name) ==
    {[idea |-> shape.idea, root_ok |-> shape.root_ok,
      keys |-> IF workflow_name = "mvp_only" THEN Range(required_keys) ELSE {}] :
        shape \in InputShapes}
      \cup {[idea |-> "dict_ok", root_ok |-> FALSE, keys |-> keys] :
               keys \in IF workflow_name = "mvp_only" THEN SUBSET Range(required_keys) ELSE {}}

---------------------------------------------------------------------------
(* State *)

Callers == {"c1", "c2"}
\* the caller of the serialized system
SerialCaller == "c1"

Frame ==
    [pc |-> "idle",          \* idle | attempt | gate | done
     workflow |-> "None",    \* the workflow_name argument
     keys |-> {},            \* upstream keys present in input_data
     idea |-> NoneVal,       \* startup_idea once parsed
     stage |-> "None",       \* agent_name of the run_agent call in progress
     attempt |-> 0,          \* loop variable of run_agent
     data |-> EmptyDict,     \* market_data, competitor_data, persona_data, mvp_data once bound
     calls |-> [a \in AgentNames |-> 0],   \* history: agent.process calls made in this run
     invoked |-> [a \in AgentNames |-> 0], \* history: run_agent invocations made in this run
     sent |-> EmptyDict,     \* history: agent_name -> the input_data run_agent was given
     guards |-> EmptyDict,   \* history: agent_name -> finished run_agent invocation
     approval |-> "None",    \* the gate's answer once given
     asked |-> FALSE,        \* history: get_human_feedback was consulted in this run
     scored |-> FALSE,       \* history: a validation score was computed in this run
     saved |-> EmptyDict,    \* history: key -> value of every _save_result call of this run
     warned |-> FALSE,       \* history: a checkpoint file write failed and was logged
     overlapped |-> FALSE,   \* history: another caller's run took a step during this run
     proc |-> NoOutcome,     \* how the workflow procedure ended
     outcome |-> NoOutcome]  \* how execute_workflow ended

GateIdle ==
    [state |-> "idle", caller |-> "None", options |-> <<>>, waited |-> FALSE, answer |-> "None"]

ScoreIdle == [phase |-> "off"]

Configs ==
    [max_retries : 1..MaxRetriesBound,
     human_in_the_loop : BOOLEAN,
     save_intermediate_results : BOOLEAN]

Registries == {AgentNames} \cup {AgentNames \ {a} : a \in AgentNames}

Init ==
    /\ config \in Configs
    /\ agents \in Registries
    /\ current_workflow = "None"
    /\ results_store = EmptyDict
    /\ run = [t \in Callers |-> Frame]
    /\ gate = GateIdle
    /\ score_in = ScoreIdle
    /\ score_out = NoOutcome

\* what the file system does during one event-loop step: whether a write into
\* output_dir succeeds (out) and whether one into output_dir/reports does (reports)
Disks == [out : BOOLEAN, reports : BOOLEAN]

\* the file system during a step that writes nothing under output_dir/reports
CheckpointDisks == {disk \in Disks : disk.reports}

\* the file system during the first step of execute_workflow: only mvp_only saves
\* anything there (the final_result of its precondition error)
FirstStepDisks(workflow_name) ==
    IF workflow_name = "mvp_only" THEN CheckpointDisks
    ELSE {[out |-> TRUE, reports |-> TRUE]}

\* the mutable orchestrator state an event-loop step works on, with caller t's frame
\* and the file system's behaviour during the step
Ctx(t, disk) ==
    [t |-> t, r |-> run[t], store |-> results_store, cw |-> current_workflow, gate |-> gate,
     disk |-> disk]

\* the frame is suspended inside execute_workflow (at an await or at input())
InFlight(r) == r.pc \in {"attempt", "gate"}

\* history: frame r of caller u after a step of caller t's run left frame `stepped`
Interleave(u, r, t, stepped) ==
    IF u = t
    THEN [stepped EXCEPT !.overlapped =
              @ \/ (stepped.workflow \in workflows
                     /\ \E other \in Callers \ {t} : InFlight(run[other]))]
    ELSE [r EXCEPT !.overlapped = @ \/ (InFlight(r) /\ stepped.workflow \in workflows)]

Commit(t, c) ==
    /\ run' = [u \in Callers |-> Interleave(u, run[u], t, c.r)]
    /\ results_store' = c.store
    /\ current_workflow' = c.cw
    /\ gate' = c.gate
    /\ UNCHANGED <<config, agents, score_in, score_out>>

---------------------------------------------------------------------------
(* Checkpoint Store and Workflow Engine *)

\* lines 256-257: the key with "/" and "\\" replaced by "_", and the file it names
RECURSIVE clean_key(_)
clean_key(key) ==
    IF Len(key) = 0 THEN ""
    ELSE (IF SubSeq(key, 1, 1) \in {"/", "\\"} THEN "_" ELSE SubSeq(key, 1, 1))
           \o clean_key(SubSeq(key, 2, Len(key)))
\* config.output_dir is one directory for the orchestrator's lifetime (default "./outputs")
output_dir == "./outputs"
file_path(key) == output_dir \o "/" \o clean_key(key) \o ".json"

StoreAfterWrite(c, key, result) ==
    IF config.save_intermediate_results /\ ~c.disk.out
    THEN [c EXCEPT !.r.saved = (key :> result) @@ c.r.saved, !.r.warned = TRUE]
    ELSE [c EXCEPT !.store = (key :> result) @@ c.store,
                   !.r.saved = (key :> result) @@ c.r.saved]
\* lines 251-264: the mapping is updated first; the file is written only when
\* save_intermediate_results is set, and a failed write is caught and logged
_save_result(c, key, result) ==
    [c EXCEPT !.store = (key :> result) @@ c.store,
              !.r.saved = (key :> result) @@ c.r.saved,
              !.r.warned = @ \/ (config.save_intermediate_results /\ ~c.disk.out)]

get_result(key) == Get(results_store, key, NoneVal)

SwallowError(c, proc) ==
    [c EXCEPT !.cw = "None", !.r.pc = "done", !.r.proc = proc,
              !.r.outcome = IF proc.kind = "raised" THEN Returned(EmptyDict) ELSE proc]
SaveFinalAlways(c, proc) ==
    LET saved == IF proc.kind = "returned" THEN _save_result(c, "final_result", proc.value)
                 ELSE c
    IN [saved EXCEPT !.cw = "None", !.r.pc = "done", !.r.proc = proc, !.r.outcome = proc]
ClearContext(c, proc) ==
    [c EXCEPT !.store = EmptyDict, !.cw = "None", !.r.pc = "done", !.r.proc = proc,
              !.r.outcome = proc]
\* how execute_workflow ends once the procedure returned or raised (try/except/finally)
execute_workflow_exit(c, proc) ==
    LET saved == IF proc.kind = "returned" /\ config.save_intermediate_results
                 THEN _save_result(c, "final_result", proc.value)
                 ELSE c
    IN [saved EXCEPT !.cw = "None", !.r.pc = "done", !.r.proc = proc, !.r.outcome = proc]

---------------------------------------------------------------------------
(* Execution Guard: entering run_agent and starting an attempt *)

AgentNotFound(agent_name) == Exc("ValueError", "Agent '" \o agent_name \o "' not found")

\* one loop iteration begins: agent.process(input_data) is called and awaited
BeginAttempt(c, attempt) ==
    [c EXCEPT !.r.pc = "attempt", !.r.attempt = attempt,
              !.r.calls[c.r.stage] = @ + 1]

\* history: run_agent(agent_name, input_data) was entered
Invoke(c, agent_name, input_data) ==
    [c EXCEPT !.r.invoked[agent_name] = @ + 1,
              !.r.sent = (agent_name :> input_data) @@ c.r.sent]

NotFoundAsReport(c, agent_name, input_data) ==
    IF agent_name \notin agents
    THEN execute_workflow_exit(Invoke(c, agent_name, input_data),
             Returned([success |-> FALSE, error |-> AgentNotFound(agent_name).msg]))
    ELSE BeginAttempt([Invoke(c, agent_name, input_data) EXCEPT !.r.stage = agent_name], 0)
\* run_agent up to its first suspension; an unknown name raises through the procedure
run_agent(c, agent_name, input_data) ==
    IF agent_name \notin agents
    THEN execute_workflow_exit(Invoke(c, agent_name, input_data),
                               Raised(AgentNotFound(agent_name)))
    ELSE BeginAttempt([Invoke(c, agent_name, input_data) EXCEPT !.r.stage = agent_name], 0)

---------------------------------------------------------------------------
(* Human Feedback Gate *)

LastOption(options) == IF Len(options) > 0 THEN options[Len(options)] ELSE "approved"
\* the answer given without asking, when human_in_the_loop is off
DefaultAnswer(options) == IF Len(options) > 0 THEN options[1] ELSE "approved"

\* get_human_feedback up to its return or to the blocking input()
get_human_feedback(c, caller, options) ==
    IF ~config.human_in_the_loop
    THEN [c EXCEPT !.gate = [state |-> "returned", caller |-> caller, options |-> options,
                             waited |-> FALSE, answer |-> DefaultAnswer(options)]]
    ELSE [c EXCEPT !.gate = [state |-> "waiting", caller |-> caller, options |-> options,
                             waited |-> TRUE, answer |-> "None"]]

\* int(text) of the console line: the number, or -1 for a ValueError
ConsoleLines == {"0", "1", "2", "3", "yes"}
ParseChoice(text) ==
    CASE text = "0" -> 0 [] text = "1" -> 1 [] text = "2" -> 2 [] text = "3" -> 3
      [] OTHER -> -1

---------------------------------------------------------------------------
(* Pipeline Procedures: what follows each awaited run_agent call *)

\* the input_data each stage of workflow_full_validation hands to run_agent
\* (lines 78-81, 93-96, 108-112, 145-150); search_terms is input_data's, default []
MarketInput(idea) == [idea |-> idea, search_terms |-> <<>>]
IdeaOnly(idea, market_data) == [idea |-> idea]
CompetitorInput(idea, market_data) == [idea |-> idea, market_data |-> market_data]
PersonaInput(idea, market_data, competitor_data) ==
    [idea |-> idea, market_data |-> market_data, competitor_data |-> competitor_data]
MvpInput(idea, market_data, competitor_data, persona_data) ==
    [idea |-> idea, market_data |-> market_data, competitor_data |-> competitor_data,
     customer_personas |-> persona_data]
\* the value input_data holds under an upstream key (mvp_only passes it on unread)
FromInput(key) == [from_input |-> key]

ProcReturn(c, value) == execute_workflow_exit(c, Returned(value))
ProcRaise(c, e) == execute_workflow_exit(c, Raised(e))
Bind(c, var, value) == [c EXCEPT !.r.data = (var :> value) @@ c.r.data]

ReportWriteError == Exc("OSError", "cannot write report file")

\* lines 152-180; _save_validation_report raises when reports/ cannot be written
full_validation_after_mvp(c, mvp_result) ==
    LET d == c.r.data
        idea == c.r.idea[1]
    IN IF ~mvp_result.success
       THEN ProcReturn(c, _generate_error_report("MVP planning failed", idea,
                             Some(d["market_data"]), Some(d["competitor_data"]),
                             Some(d["persona_data"])))
       ELSE LET mvp_data == mvp_result.content
                c1 == _save_result(Bind(c, "mvp_data", mvp_data), "mvp_plan", mvp_data)
                score == _calculate_validation_score(d["market_data"], d["competitor_data"],
                                                     d["persona_data"], mvp_data)
                c2 == [c1 EXCEPT !.r.scored = TRUE]
            IN IF score.kind = "raised" THEN ProcRaise(c1, score.exc)
               ELSE IF ~c.disk.reports THEN ProcRaise(c2, ReportWriteError)
               ELSE ProcReturn(c2, _generate_validation_report(idea, d["market_data"],
                                       d["competitor_data"], d["persona_data"], mvp_data,
                                       score.value))

IgnoreApproval(c, approval) ==
    run_agent(c, "mvp_planner",
              MvpInput(c.r.idea[1], c.r.data["market_data"], c.r.data["competitor_data"],
                       c.r.data["persona_data"]))
\* lines 136-150: the gate's answer decides between the interim report and stage 4
full_validation_after_gate(c, approval) ==
    IF approval # "proceed"
    THEN LET d == c.r.data
             report == _generate_interim_report(c.r.idea[1], d["market_data"],
                                                d["competitor_data"], d["persona_data"])
         IN ProcReturn(_save_result(c, "interim_report", report), report)
    ELSE run_agent(c, "mvp_planner",
                   MvpInput(c.r.idea[1], c.r.data["market_data"], c.r.data["competitor_data"],
                            c.r.data["persona_data"]))

\* lines 114-134
full_validation_after_persona(c, persona_result) ==
    LET d == c.r.data
    IN IF ~persona_result.success
       THEN ProcReturn(c, _generate_error_report("Customer persona generation failed",
                             c.r.idea[1], Some(d["market_data"]), Some(d["competitor_data"]),
                             NoneVal))
       ELSE LET persona_data == persona_result.content
                c1 == _save_result(Bind(c, "persona_data", persona_data),
                                   "customer_personas", persona_data)
                asked == get_human_feedback([c1 EXCEPT !.r.asked = TRUE], c.t,
                                            <<"proceed", "stop">>)
            IN IF ~config.human_in_the_loop
               THEN run_agent(c1, "mvp_planner",
                              MvpInput(c.r.idea[1], d["market_data"], d["competitor_data"],
                                       persona_data))
               ELSE [asked EXCEPT !.r.pc = "gate"]

ContinueAfterFailure(c, competitor_result) ==
    run_agent(_save_result(Bind(c, "competitor_data", competitor_result.content),
                           "competitor_analysis", competitor_result.content),
              "customer_persona_generator",
              PersonaInput(c.r.idea[1], c.r.data["market_data"], competitor_result.content))
\* lines 98-112
full_validation_after_competitor(c, competitor_result) ==
    IF ~competitor_result.success
    THEN ProcReturn(c, _generate_error_report("Competitor analysis failed", c.r.idea[1],
                          Some(c.r.data["market_data"]), NoneVal, NoneVal))
    ELSE run_agent(_save_result(Bind(c, "competitor_data", competitor_result.content),
                                "competitor_analysis", competitor_result.content),
                   "customer_persona_generator",
                   PersonaInput(c.r.idea[1], c.r.data["market_data"],
                                competitor_result.content))

RetryStage(c, market_result) ==
    IF ~market_result.success
    THEN run_agent(c, "market_researcher", MarketInput(c.r.idea[1]))
    ELSE run_agent(_save_result(Bind(c, "market_data", market_result.content),
                                "market_research", market_result.content),
                   "competitor_analyzer",
                   CompetitorInput(c.r.idea[1], market_result.content))
\* lines 83-96
full_validation_after_market(c, market_result) ==
    IF ~market_result.success
    THEN ProcReturn(c, _generate_error_report("Market research failed", c.r.idea[1],
                          NoneVal, NoneVal, NoneVal))
    ELSE run_agent(_save_result(Bind(c, "market_data", market_result.content),
                                "market_research", market_result.content),
                   "competitor_analyzer",
                   CompetitorInput(c.r.idea[1], market_result.content))

\* lines 204-220
market_only_after_market(c, market_result) ==
    IF ~market_result.success
    THEN ProcReturn(c, _generate_error_report("Market research failed", c.r.idea[1],
                          NoneVal, NoneVal, NoneVal))
    ELSE LET report == [idea |-> c.r.idea[1], market_analysis |-> market_result.content,
                        timestamp |-> Now]
         IN ProcReturn(_save_result(Bind(c, "market_data", market_result.content),
                                    "market_only_report", report), report)

\* lines 255-271
mvp_only_after_mvp(c, mvp_result) ==
    IF ~mvp_result.success
    THEN ProcReturn(c, [error |-> "MVP planning failed", success |-> FALSE])
    ELSE LET report == [idea |-> c.r.idea[1], mvp_plan |-> mvp_result.content,
                        timestamp |-> Now]
         IN ProcReturn(_save_result(Bind(c, "mvp_data", mvp_result.content),
                                    "mvp_only_report", report), report)

\* the procedure resumes where it awaited run_agent
Resume(c, result) ==
    CASE c.r.workflow = "full_validation" /\ c.r.stage = "market_researcher" ->
             full_validation_after_market(c, result)
      [] c.r.workflow = "full_validation" /\ c.r.stage = "competitor_analyzer" ->
             full_validation_after_competitor(c, result)
      [] c.r.workflow = "full_validation" /\ c.r.stage = "customer_persona_generator" ->
             full_validation_after_persona(c, result)
      [] c.r.workflow = "full_validation" /\ c.r.stage = "mvp_planner" ->
             full_validation_after_mvp(c, result)
      [] c.r.workflow = "market_only" -> market_only_after_market(c, result)
      [] c.r.workflow = "mvp_only" -> mvp_only_after_mvp(c, result)

---------------------------------------------------------------------------
(* Execution Guard: what follows each awaited agent.process call *)

\* history: the run_agent invocation on c.r.stage ended with `result`
\* after `c.r.attempt + 1` attempts, the last of which ended as `ending`
GuardDone(c, result, ending) ==
    [c EXCEPT !.r.guards = (c.r.stage :>
                 [attempts |-> c.r.attempt + 1, ending |-> ending, result |-> result])
              @@ c.r.guards]

WrapDefault(agent_name, result) ==
    IF IsAgentOutput(result) THEN result
    ELSE AgentOutput(agent_name, "result", EmptyDict, TRUE)
WrapByStatus(agent_name, result) ==
    IF IsAgentOutput(result) THEN result
    ELSE AgentOutput(agent_name, "result", result, Get(result, "status", "success") # "error")
\* lines 173-182: the value run_agent returns for an attempt that returned `result`
Wrap(agent_name, result) ==
    IF IsAgentOutput(result) THEN result
    ELSE AgentOutput(agent_name, "result", result, TRUE)

\* lines 195-200: the value run_agent returns once the last attempt failed with e
Failure(agent_name, e) == AgentOutput(agent_name, "error", [error |-> e.msg], FALSE)

OneMoreAttempt(attempt) == attempt = config.max_retries
\* lines 186, 190: the failed attempt was the last one
LastAttempt(attempt) == attempt = config.max_retries - 1

CheckpointWrapped(c, result) ==
    LET output == Wrap(c.r.stage, result)
        saved == IF config.save_intermediate_results /\ c.cw # "None"
                 THEN _save_result(c, c.cw \o "_" \o c.r.stage, output)
                 ELSE c
    IN Resume(GuardDone(saved, output, Returned(result)), output)
SkipCheckpoint(c, result) ==
    LET output == Wrap(c.r.stage, result)
    IN Resume(GuardDone(c, output, Returned(result)), output)
\* lines 167-182: the awaited agent.process returned `result`
run_agent_returned(c, result) ==
    LET agent_name == c.r.stage
        saved == IF config.save_intermediate_results /\ c.cw # "None"
                 THEN _save_result(c, c.cw \o "_" \o agent_name, result)
                 ELSE c
        output == Wrap(agent_name, result)
    IN Resume(GuardDone(saved, output, Returned(result)), output)

Propagate(c, e) == ProcRaise(c, e)
\* lines 193-200: the outer handler turns the re-raised e into run_agent's result
Exhausted(c, e) ==
    LET output == Failure(c.r.stage, e)
    IN Resume(GuardDone(c, output, Raised(e)), output)

\* a retry loop that never gives up: the attempt counter flips instead of advancing
RetryForever(c, e) ==
    [c EXCEPT !.r.attempt = 1 - @]

\* lines 184-191: the awaited agent.process raised e (TimeoutError from wait_for included)
run_agent_failed(c, e) ==
    IF LastAttempt(c.r.attempt) THEN Exhausted(c, e)
    ELSE BeginAttempt(c, c.r.attempt + 1)

---------------------------------------------------------------------------
(* Pipeline Procedures: from the call to the first suspension *)

ReportParseError(c, input) ==
    LET parsed == _parse_startup_idea(input)
    IN IF parsed.kind = "raised"
       THEN ProcReturn(c, [error |-> parsed.exc.msg, success |-> FALSE])
       ELSE run_agent([c EXCEPT !.r.idea = Some(parsed.value)], "market_researcher",
                      MarketInput(parsed.value))
\* lines 71-81
workflow_full_validation(c, input) ==
    LET parsed == _parse_startup_idea(input)
    IN IF parsed.kind = "raised" THEN ProcRaise(c, parsed.exc)
       ELSE run_agent([c EXCEPT !.r.idea = Some(parsed.value)], "market_researcher",
                      MarketInput(parsed.value))

\* lines 192-202
workflow_market_only(c, input) ==
    LET parsed == _parse_startup_idea(input)
    IN IF parsed.kind = "raised" THEN ProcRaise(c, parsed.exc)
       ELSE run_agent([c EXCEPT !.r.idea = Some(parsed.value)], "market_researcher",
                      MarketInput(parsed.value))

PlanAnyway(input) == <<>>
\* line 240
missing_keys(input) == SelectSeq(required_keys, LAMBDA key : key \notin input.keys)

\* lines 233-253
workflow_mvp_only(c, input) ==
    LET parsed == _parse_startup_idea(input)
        missing == missing_keys(input)
    IN IF parsed.kind = "raised" THEN ProcRaise(c, parsed.exc)
       ELSE IF Len(missing) > 0
       THEN ProcReturn([c EXCEPT !.r.idea = Some(parsed.value)],
                       [error |-> "Missing required data: " \o Join(missing, ", "),
                        success |-> FALSE])
       ELSE run_agent([c EXCEPT !.r.idea = Some(parsed.value)], "mvp_planner",
                      MvpInput(parsed.value, FromInput("market_data"),
                               FromInput("competitor_data"), FromInput("customer_personas")))

WorkflowNotFound(workflow_name) ==
    Exc("ValueError", "Workflow '" \o workflow_name \o "' not found")

ResetThenFail(c, workflow_name) ==
    [c EXCEPT !.store = EmptyDict,
              !.r = [Frame EXCEPT !.pc = "done", !.workflow = workflow_name,
                                  !.outcome = Raised(WorkflowNotFound(workflow_name))]]
\* lines 118-119: an unregistered name raises before the engine's state is touched
execute_workflow_not_found(c, workflow_name) ==
    [c EXCEPT !.r = [Frame EXCEPT !.pc = "done", !.workflow = workflow_name,
                                  !.outcome = Raised(WorkflowNotFound(workflow_name))]]

---------------------------------------------------------------------------
(* Actions *)

\* execute_workflow(workflow_name, input_data), lines 118-128, up to the first suspension
ExecuteWorkflow(t, workflow_name, input, disk) ==
    /\ run[t].pc \in {"idle", "done"}
    /\ gate.state # "waiting"
    /\ IF workflow_name \notin workflows
       THEN Commit(t, execute_workflow_not_found(Ctx(t, disk), workflow_name))
       ELSE LET c == [Ctx(t, disk) EXCEPT !.cw = workflow_name, !.store = EmptyDict,
                                    !.r = [Frame EXCEPT !.workflow = workflow_name,
                                                        !.keys = input.keys]]
            IN Commit(t, CASE workflow_name = "full_validation" -> workflow_full_validation(c, input)
                           [] workflow_name = "market_only" -> workflow_market_only(c, input)
                           [] workflow_name = "mvp_only" -> workflow_mvp_only(c, input))

\* the awaited agent.process returns a value within the timeout
AgentReturns(t, result, disk) ==
    /\ run[t].pc = "attempt"
    /\ gate.state # "waiting"
    /\ result \in AgentResults(run[t].stage)
    /\ Commit(t, run_agent_returned(Ctx(t, disk), result))

\* the awaited agent.process raises
AgentRaises(t, disk) ==
    /\ run[t].pc = "attempt"
    /\ gate.state # "waiting"
    /\ Commit(t, run_agent_failed(Ctx(t, disk), AgentFailure))

\* wait_for cancels the attempt after timeout_seconds and raises TimeoutError
AgentTimesOut(t, disk) ==
    /\ run[t].pc = "attempt"
    /\ gate.state # "waiting"
    /\ Commit(t, run_agent_failed(Ctx(t, disk), TimeoutError))

\* a direct call of get_human_feedback(message, options), outside any workflow
GetHumanFeedback(options) ==
    /\ gate.state # "waiting"
    /\ \A t \in Callers : run[t].pc \in {"idle", "done"}
    /\ gate' = get_human_feedback([gate |-> gate], "direct", options).gate
    /\ UNCHANGED <<config, agents, current_workflow, results_store, run, score_in, score_out>>

\* lines 295-310: the human types a line at the blocking input()
HumanResponds(text, disk) ==
    /\ gate.state = "waiting"
    /\ LET options == gate.options
           choice == ParseChoice(text)
           valid == IF Len(options) > 0 THEN 1 <= choice /\ choice <= Len(options) ELSE TRUE
           answer == IF Len(options) > 0 THEN options[choice] ELSE text
           back == [gate EXCEPT !.state = "returned", !.answer = answer]
       IN IF ~valid THEN UNCHANGED vars
          ELSE IF gate.caller = "direct"
          THEN /\ gate' = back
               /\ UNCHANGED <<config, agents, current_workflow, results_store, run,
                              score_in, score_out>>
          ELSE Commit(gate.caller,
                      full_validation_after_gate(
                          [Ctx(gate.caller, disk) EXCEPT !.gate = back, !.r.approval = answer],
                          answer))

DirectOptions == {<<>>, <<"yes", "no">>, <<"proceed", "stop">>}
WorkflowArgs == workflows \cup {"deep_dive"}

Next ==
    \/ \E name \in WorkflowArgs : \E input \in Inputs(name) : \E disk \in FirstStepDisks(name) :
           ExecuteWorkflow(SerialCaller, name, input, disk)
    \/ \E result \in UNION {AgentResults(a) : a \in AgentNames}, disk \in Disks :
           AgentReturns(SerialCaller, result, disk)
    \/ \E disk \in CheckpointDisks : AgentRaises(SerialCaller, disk)
    \/ \E disk \in CheckpointDisks : AgentTimesOut(SerialCaller, disk)
    \/ \E text \in ConsoleLines, disk \in CheckpointDisks : HumanResponds(text, disk)

Spec == Init /\ [][Next]_vars

\* a file system on which every write succeeds
DiskFine == [out |-> TRUE, reports |-> TRUE]

\* the inputs of the termination analysis: a parseable and an unparseable
\* input_data, and for every agent a usable result and a reported failure
LiveInputs(workflow_name) ==
    {input \in Inputs(workflow_name) :
        /\ input.idea \in {"dict_ok", "dict_bad"}
        /\ workflow_name = "mvp_only" => input.keys = Range(required_keys)}
LiveResults ==
    {Scored(a) : a \in AgentNames}
      \cup {AgentOutput(a, "error", [error |-> "reported by agent"], FALSE) : a \in AgentNames}

\* every awaited agent.process call ends: it returns, raises, or wait_for cuts it
\* off after timeout_seconds (line 163)
AttemptEnds ==
    \/ AgentRaises(SerialCaller, DiskFine)
    \/ AgentTimesOut(SerialCaller, DiskFine)
    \/ \E result \in LiveResults : AgentReturns(SerialCaller, result, DiskFine)

\* the human at the console ends up typing a valid choice (an invalid line only
\* repeats the prompt, lines 301-308)
HumanChooses == \E text \in ConsoleLines : HumanResponds(text, DiskFine)

NextLive ==
    \/ \E name \in WorkflowArgs : \E input \in LiveInputs(name) :
           ExecuteWorkflow(SerialCaller, name, input, DiskFine)
    \/ AttemptEnds
    \/ HumanChooses

SpecLive == Init /\ [][NextLive]_vars /\ WF_vars(AttemptEnds) /\ WF_vars(HumanChooses)

\* two callers share one orchestrator and their execute_workflow calls may
\* interleave at every await; the human gate is off, every agent is registered
\* and results are saved; each attempt returns its payload or raises
ConcurrentWorkflows == {"full_validation", "market_only"}
ParsedInput == [idea |-> "dict_ok", root_ok |-> FALSE, keys |-> {}]

InitConcurrent ==
    /\ config = [max_retries |-> 1, human_in_the_loop |-> FALSE,
                 save_intermediate_results |-> TRUE]
    /\ agents = AgentNames
    /\ current_workflow = "None"
    /\ results_store = EmptyDict
    /\ run = [t \in Callers |-> Frame]
    /\ gate = GateIdle
    /\ score_in = ScoreIdle
    /\ score_out = NoOutcome

NextConcurrent ==
    \E t \in Callers :
        \/ \E name \in ConcurrentWorkflows : ExecuteWorkflow(t, name, ParsedInput, DiskFine)
        \/ \E a \in AgentNames : AgentReturns(t, Scored(a), DiskFine)
        \/ AgentRaises(t, DiskFine)

SpecConcurrent == InitConcurrent /\ [][NextConcurrent]_vars

\* get_human_feedback called on its own, on a freshly constructed orchestrator
NextGate ==
    \/ \E options \in DirectOptions : GetHumanFeedback(options)
    \/ \E text \in ConsoleLines, disk \in CheckpointDisks : HumanResponds(text, disk)

SpecGate == Init /\ [][NextGate]_vars

---------------------------------------------------------------------------
(* The score as a pure function: payloads drawn field by field *)

MarketSizes == {9999999, 10000000, 100000000, 100000001, 1000000000, 2000000000}
GrowthRates == {-5, 4, 5, 10, 11, 20, 25}
MarketInputs ==
    {EmptyDict}
      \cup {[market_trends |-> size @@ growth] :
               size \in {EmptyDict} \cup {[market_size |-> n] : n \in MarketSizes},
               growth \in {EmptyDict} \cup {[growth_rate |-> n] : n \in GrowthRates}}

CompetitorLists == {Direct(0), Direct(10) \o <<[type |-> "indirect"]>>, Direct(11)}
GapLists == {Gaps(0), Gaps(1), Gaps(3), Gaps(4)}
CompetitorInputs ==
    {competitors @@ gaps :
        competitors \in {EmptyDict} \cup {[competitors |-> l] : l \in CompetitorLists},
        gaps \in {EmptyDict} \cup {[market_gaps |-> l] : l \in GapLists}}

Levels == {"high", "medium", "low"}
PersonaInputs ==
    {EmptyDict, [personas |-> <<>>]}
      \cup {[personas |-> <<pain @@ wtp>>] :
               pain \in {EmptyDict} \cup {[pain_level |-> l] : l \in Levels},
               wtp \in {EmptyDict} \cup {[willingness_to_pay |-> l] : l \in Levels}}

DevWeeks == {5, 6, 12, 13}
MinCosts == {10000, 14999, 15000, 50000, 50001}
MvpInputs ==
    {time @@ cost :
        time \in {EmptyDict, [development_time |-> EmptyDict]}
                   \cup {[development_time |-> [weeks |-> n]] : n \in DevWeeks},
        cost \in {EmptyDict, [cost_estimate |-> EmptyDict]}
                   \cup {[cost_estimate |-> [min |-> n]] : n \in MinCosts}}

InitScore ==
    /\ config = [max_retries |-> 1, human_in_the_loop |-> FALSE,
                 save_intermediate_results |-> TRUE]
    /\ agents = AgentNames
    /\ current_workflow = "None"
    /\ results_store = EmptyDict
    /\ run = [t \in Callers |-> Frame]
    /\ gate = GateIdle
    /\ score_in \in [phase : {"ready"}, market_data : MarketInputs,
                     competitor_data : CompetitorInputs, persona_data : PersonaInputs,
                     mvp_data : MvpInputs]
    /\ score_out = NoOutcome

CalculateValidationScore ==
    /\ score_in.phase = "ready"
    /\ score_out' = _calculate_validation_score(score_in.market_data, score_in.competitor_data,
                                                score_in.persona_data, score_in.mvp_data)
    /\ score_in' = [score_in EXCEPT !.phase = "done"]
    /\ UNCHANGED <<config, agents, current_workflow, results_store, run, gate>>

NextScore == CalculateValidationScore

SpecScore == InitScore /\ [][NextScore]_vars

---------------------------------------------------------------------------
(* Properties *)

StageOrder ==
    <<"market_researcher", "competitor_analyzer", "customer_persona_generator", "mvp_planner">>

\* the report key and the procedure's local variable of each stage
PayloadKey == <<"market_analysis", "competitor_analysis", "customer_personas", "mvp_plan">>
PayloadVar == <<"market_data", "competitor_data", "persona_data", "mvp_data">>

Guards(t) == run[t].guards
Finished(t, a) == a \in DOMAIN run[t].guards

\* C1: one run_agent invocation calls agent.process at least once and at most
\* max_retries times (also while it is still running), and a result with
\* success = true is never returned without a call.
C1_AttemptsBounded ==
    \A t \in Callers : \A a \in AgentNames :
        /\ run[t].calls[a] <= config.max_retries
        /\ Finished(t, a) =>
              /\ run[t].calls[a] >= 1
              /\ Guards(t)[a].attempts = run[t].calls[a]
        /\ (Finished(t, a) /\ Guards(t)[a].result.success) => run[t].calls[a] >= 1

\* an invocation that used every attempt and still succeeded
C1_Witness ==
    \E t \in Callers : \E a \in AgentNames :
        /\ Finished(t, a)
        /\ config.max_retries = MaxRetriesBound
        /\ run[t].calls[a] = config.max_retries
        /\ Guards(t)[a].result.success

\* C2: when every one of the max_retries attempts failed, run_agent returns a
\* result with success = false that carries the last error's message, and the
\* agent's error never reaches the procedure as an exception.
C2_ExhaustionReturnsFailure ==
    \A t \in Callers :
        /\ \A a \in DOMAIN Guards(t) :
              Guards(t)[a].ending.kind = "raised" =>
                 /\ run[t].calls[a] = config.max_retries
                 /\ Guards(t)[a].result.success = FALSE
                 /\ Guards(t)[a].result.message_type = "error"
                 /\ DOMAIN Guards(t)[a].result.content = {"error"}
                 /\ Guards(t)[a].result.content["error"] = Guards(t)[a].ending.exc.msg
        /\ run[t].proc.kind = "raised" =>
              run[t].proc.exc \notin {AgentFailure, TimeoutError}

\* two attempts, both timed out, and run_agent returned
C2_Witness ==
    \E t \in Callers : \E a \in DOMAIN Guards(t) :
        /\ Guards(t)[a].ending = Raised(TimeoutError)
        /\ Guards(t)[a].attempts = MaxRetriesBound
        /\ run[t].proc.kind = "returned"

PayloadOf(value) == IF IsAgentOutput(value) THEN value.content ELSE value

\* C3 as claimed: an attempt that returns ends the loop, and the result has
\* success = true and carries that attempt's payload.
C3_Original ==
    \A t \in Callers : \A a \in DOMAIN Guards(t) :
        Guards(t)[a].ending.kind = "returned" =>
           /\ Guards(t)[a].attempts = run[t].calls[a]
           /\ Guards(t)[a].result.success = TRUE
           /\ Guards(t)[a].result.content = PayloadOf(Guards(t)[a].ending.value)

\* C3 amended: an attempt that returns ends the loop (no further call); a returned
\* plain mapping gives success = true with exactly that mapping as content; a
\* returned AgentOutput is handed back unchanged, whatever its success flag.
C3_ReturnEndsLoop ==
    \A t \in Callers : \A a \in DOMAIN Guards(t) :
        Guards(t)[a].ending.kind = "returned" =>
           /\ Guards(t)[a].attempts = run[t].calls[a]
           /\ IF IsAgentOutput(Guards(t)[a].ending.value)
              THEN Guards(t)[a].result = Guards(t)[a].ending.value
              ELSE /\ Guards(t)[a].result.success = TRUE
                   /\ Guards(t)[a].result.agent_name = a
                   /\ Guards(t)[a].result.content = Guards(t)[a].ending.value

\* a non-empty mapping returned by the second attempt, after the first failed
C3_Witness ==
    \E t \in Callers : \E a \in DOMAIN Guards(t) :
        /\ Guards(t)[a].ending = Returned(Scored(a))
        /\ Guards(t)[a].attempts = 2
        /\ Guards(t)[a].result.content = Scored(a)

FailedStage(t, k) ==
    /\ run[t].workflow = "full_validation"
    /\ Finished(t, StageOrder[k])
    /\ ~Guards(t)[StageOrder[k]].result.success

\* C4: in a full_validation run, once a stage's guard result has success = false
\* the run is over: no later stage's collaborator is called, the gate is not
\* consulted after it, and no score or recommendations are produced.
C4_FailureStopsPipeline ==
    \A t \in Callers : \A k \in 1..4 :
        FailedStage(t, k) =>
           /\ run[t].pc = "done"
           /\ \A j \in (k + 1)..4 :
                 run[t].calls[StageOrder[j]] = 0 /\ ~Finished(t, StageOrder[j])
           /\ k < 4 => ~run[t].asked
           /\ ~run[t].scored
           /\ run[t].proc.kind = "returned"
           /\ DOMAIN run[t].proc.value \cap {"validation_score", "recommendations"} = {}

\* the competitor stage failed after a successful market stage
C4_Witness ==
    \E t \in Callers :
        /\ FailedStage(t, 2)
        /\ Guards(t)["market_researcher"].result.success
        /\ run[t].pc = "done"

\* C5 as claimed: the error report of a run that failed at stage k has
\* success = false, an error message, the idea, and the payload key of exactly
\* the stages before k, whatever they returned.
C5_ErrorReportKeys ==
    \A t \in Callers : \A k \in 1..4 :
        (FailedStage(t, k) /\ run[t].outcome.kind = "returned") =>
           LET report == run[t].outcome.value
           IN /\ report["success"] = FALSE
              /\ "error" \in DOMAIN report
              /\ report["idea"] = Idea
              /\ \A j \in 1..4 : (PayloadKey[j] \in DOMAIN report) <=> (j < k)

\* C6: when execute_workflow has finished, by returning or by raising, the engine
\* is idle; an error raised by the procedure is re-raised to the caller, and a
\* returned value is returned.
C6_IdleAfterWorkflow ==
    /\ (\A t \in Callers : run[t].pc \in {"idle", "done"}) => current_workflow = "None"
    /\ \A t \in Callers :
          (run[t].pc = "done" /\ run[t].workflow \in workflows) =>
             /\ run[t].proc.kind \in {"returned", "raised"}
             /\ run[t].outcome = run[t].proc

\* a procedure that raised after a collaborator had been called
C6_Witness ==
    \E t \in Callers :
        /\ run[t].pc = "done"
        /\ run[t].proc.kind = "raised"
        /\ run[t].outcome.kind = "raised"
        /\ run[t].calls["market_researcher"] > 0
        /\ current_workflow = "None"

MissingFrom(t) == Range(required_keys) \ run[t].keys

\* C7: mvp_only with a parsed idea and an upstream key missing returns
\* {success: false, error: ...} whose error names every missing key, and no
\* collaborator is called.
C7_MvpOnlyPrecondition ==
    \A t \in Callers :
        (run[t].workflow = "mvp_only" /\ run[t].idea # NoneVal /\ MissingFrom(t) # {}) =>
           /\ run[t].pc = "done"
           /\ run[t].outcome.kind = "returned"
           /\ run[t].outcome.value["success"] = FALSE
           /\ \A key \in MissingFrom(t) : Contains(run[t].outcome.value["error"], key)
           /\ \A a \in AgentNames : run[t].calls[a] = 0
           /\ DOMAIN Guards(t) = {}

\* competitor_data and customer_personas are missing
C7_Witness ==
    \E t \in Callers :
        /\ run[t].workflow = "mvp_only"
        /\ run[t].idea # NoneVal
        /\ run[t].keys = {"market_data"}
        /\ run[t].pc = "done"

\* C8: with the human in the loop, an answer other than "proceed" ends the run
\* with the interim report (success = true, status "interim", the idea and the
\* three payloads, no mvp_plan key), and mvp_planner is never called.
C8_InterimOnRefusal ==
    \A t \in Callers :
        (run[t].workflow = "full_validation" /\ run[t].approval \notin {"None", "proceed"}) =>
           /\ config.human_in_the_loop
           /\ run[t].pc = "done"
           /\ run[t].outcome.kind = "returned"
           /\ LET report == run[t].outcome.value
                  d == run[t].data
              IN /\ report["success"] = TRUE
                 /\ report["status"] = "interim"
                 /\ report["idea"] = Idea
                 /\ report["market_analysis"] = d["market_data"]
                 /\ report["competitor_analysis"] = d["competitor_data"]
                 /\ report["customer_personas"] = Get(d["persona_data"], "personas", <<>>)
                 /\ "mvp_plan" \notin DOMAIN report
           /\ run[t].calls["mvp_planner"] = 0
           /\ ~Finished(t, "mvp_planner")

\* the human answered "stop" after three successful stages
C8_Witness ==
    \E t \in Callers :
        /\ run[t].approval = "stop"
        /\ run[t].pc = "done"
        /\ run[t].data["persona_data"] = PersonaKeen

\* C9: with human_in_the_loop off, get_human_feedback never blocks on input and
\* returns the first option, or "approved" when no option is offered.
C9_GateBypassed ==
    ~config.human_in_the_loop =>
       /\ gate.state # "waiting"
       /\ gate.state = "returned" =>
             /\ ~gate.waited
             /\ gate.answer = IF gate.options # <<>> THEN Head(gate.options) ELSE "approved"

\* the gate answered for the caller, with options and without
C9_Witness ==
    /\ ~config.human_in_the_loop
    /\ gate.state = "returned"
    /\ gate.options = <<"yes", "no">>
    /\ gate.answer = "yes"

\* C10: whatever the four payloads hold, a score that
\* _calculate_validation_score returns lies in 0..100.
C10_ScoreInRange ==
    score_out.kind = "returned" => (0 <= score_out.value /\ score_out.value <= 100)

\* the adjustments add up to more than 100 and the score is 100
C10_Witness ==
    /\ score_in.phase = "done"
    /\ score_out = Returned(100)
    /\ ScoreSum(score_in.market_data, score_in.competitor_data,
                score_in.persona_data, score_in.mvp_data) > 100

\* payloads in which every field the score reads is present, the competitor list
\* is present and the growth rate is not negative
FullyScored(s) ==
    /\ Has(s.market_data, "market_trends")
    /\ DOMAIN s.market_data["market_trends"] = {"market_size", "growth_rate"}
    /\ s.market_data["market_trends"]["growth_rate"] >= 0
    /\ DOMAIN s.competitor_data = {"competitors", "market_gaps"}
    /\ Has(s.persona_data, "personas") /\ Len(s.persona_data["personas"]) > 0
    /\ DOMAIN s.persona_data["personas"][1] = {"pain_level", "willingness_to_pay"}
    /\ DOMAIN s.mvp_data = {"development_time", "cost_estimate"}
    /\ Has(s.mvp_data["development_time"], "weeks")
    /\ Has(s.mvp_data["cost_estimate"], "min")

\* 50 plus the adjustments of the rule table, for fully scored payloads
RuleTableSum(s) ==
    LET size == s.market_data["market_trends"]["market_size"]
        growth == s.market_data["market_trends"]["growth_rate"]
        direct == Cardinality({i \in DOMAIN s.competitor_data["competitors"] :
                                  s.competitor_data["competitors"][i]["type"] = "direct"})
        gaps == Len(s.competitor_data["market_gaps"])
        pain == s.persona_data["personas"][1]["pain_level"]
        wtp == s.persona_data["personas"][1]["willingness_to_pay"]
        weeks == s.mvp_data["development_time"]["weeks"]
        cost == s.mvp_data["cost_estimate"]["min"]
    IN 50
       + (IF size > 1000000000 THEN 10 ELSE IF size > 100000000 THEN 5
          ELSE IF size < 10000000 THEN -5 ELSE 0)
       + (IF growth > 20 THEN 10 ELSE IF growth > 10 THEN 5 ELSE IF growth < 5 THEN -5 ELSE 0)
       + (IF direct = 0 THEN 5 ELSE IF direct > 10 THEN -5 ELSE 0)
       + (IF gaps > 0 THEN 5 ELSE 0) + (IF gaps > 3 THEN 5 ELSE 0)
       + (IF pain = "high" THEN 10 ELSE IF pain = "medium" THEN 5 ELSE -5)
       + (IF wtp = "high" THEN 5 ELSE IF wtp = "low" THEN -5 ELSE 0)
       + (IF weeks < 6 THEN 5 ELSE IF weeks > 12 THEN -5 ELSE 0)
       + (IF cost < 15000 THEN 5 ELSE IF cost > 50000 THEN -5 ELSE 0)

\* the payloads of the worked example
IsExample(s) ==
    /\ s.market_data = MarketStrong /\ s.competitor_data = CompetitorOpen
    /\ s.persona_data = PersonaKeen /\ s.mvp_data = MvpLean

\* C11: for fully scored payloads with a non-negative growth rate, the score is
\* 50 plus the rule-table adjustments (strict thresholds), clamped to 0..100; the
\* worked example adds up to 105 and scores 100.
C11_RuleTable ==
    /\ (score_in.phase = "done" /\ FullyScored(score_in)) =>
          LET sum == RuleTableSum(score_in)
          IN score_out = Returned(IF sum > 100 THEN 100 ELSE IF sum < 0 THEN 0 ELSE sum)
    /\ (score_in.phase = "done" /\ IsExample(score_in)) =>
          (RuleTableSum(score_in) = 105 /\ score_out = Returned(100))

\* the worked example was scored
C11_Witness ==
    /\ score_in.phase = "done"
    /\ IsExample(score_in)
    /\ FullyScored(score_in)
    /\ score_out = Returned(100)

CheckpointKey(t, a) == run[t].workflow \o "_" \o a

\* C12 as claimed: with persistence enabled, every finished run_agent invocation
\* on A in workflow W leaves key "W_A" holding the invocation's result, success
\* or failure.
C12_Original ==
    \A t \in Callers : \A a \in DOMAIN Guards(t) :
        config.save_intermediate_results =>
           /\ Has(results_store, CheckpointKey(t, a))
           /\ results_store[CheckpointKey(t, a)] = Guards(t)[a].result

\* C12 amended: with persistence enabled, an invocation whose attempt returned
\* leaves key "W_A" holding the value the agent returned, as returned (not the
\* wrapped result); an invocation whose attempts all failed leaves no "W_A" key;
\* with persistence disabled there is no "W_A" key at all.
C12_RawCheckpoint ==
    \A t \in Callers : \A a \in DOMAIN Guards(t) :
        IF config.save_intermediate_results /\ Guards(t)[a].ending.kind = "returned"
        THEN /\ Has(results_store, CheckpointKey(t, a))
             /\ results_store[CheckpointKey(t, a)] = Guards(t)[a].ending.value
        ELSE ~Has(results_store, CheckpointKey(t, a))

\* one stage checkpointed its raw mapping, the next failed and left no checkpoint
C12_Witness ==
    \E t \in Callers :
        /\ config.save_intermediate_results
        /\ run[t].workflow = "full_validation"
        /\ Finished(t, "market_researcher") /\ Finished(t, "competitor_analyzer")
        /\ results_store[CheckpointKey(t, "market_researcher")] = MarketStrong
        /\ Guards(t)["market_researcher"].result # MarketStrong
        /\ Guards(t)["competitor_analyzer"].ending.kind = "raised"
        /\ ~Has(results_store, CheckpointKey(t, "competitor_analyzer"))

ReturnedRun(t) ==
    /\ run[t].pc = "done"
    /\ run[t].workflow \in workflows
    /\ run[t].outcome.kind = "returned"

\* C13 as claimed: after an execute_workflow call that returned, whatever the
\* configuration, get_result("final_result") is the value returned.
C13_Original ==
    \A t \in Callers :
        ReturnedRun(t) => get_result("final_result") = run[t].outcome.value

\* C13 amended: after an execute_workflow call that returned, with
\* save_intermediate_results set get_result("final_result") is exactly the value
\* returned; with it unset no final_result is recorded and get_result gives None.
C13_FinalResult ==
    \A t \in Callers :
        ReturnedRun(t) =>
           IF config.save_intermediate_results
           THEN /\ Has(results_store, "final_result")
                /\ get_result("final_result") = run[t].outcome.value
           ELSE /\ ~Has(results_store, "final_result")
                /\ get_result("final_result") = NoneVal

\* a full report was returned and recorded as final_result
C13_Witness ==
    \E t \in Callers :
        /\ ReturnedRun(t)
        /\ config.save_intermediate_results
        /\ "validation_score" \in DOMAIN run[t].outcome.value
        /\ get_result("final_result") = run[t].outcome.value

ParseFailed(t) ==
    /\ run[t].pc = "done"
    /\ run[t].workflow \in workflows
    /\ run[t].idea = NoneVal

\* C14: when the input cannot be parsed as a startup idea, the workflow raises
\* before any collaborator is called, execute_workflow re-raises the error, and
\* the results mapping is empty: no stage checkpoint, no final_result.
C14_ParseErrorRaises ==
    \A t \in Callers :
        ParseFailed(t) =>
           /\ run[t].proc.kind = "raised"
           /\ run[t].proc.exc.type \in {"ValueError", "ValidationError"}
           /\ run[t].outcome = run[t].proc
           /\ \A a \in AgentNames : run[t].calls[a] = 0
           /\ DOMAIN Guards(t) = {}
           /\ results_store = EmptyDict
           /\ run[t].saved = EmptyDict
           /\ current_workflow = "None"

\* full_validation refused an input whose "idea" mapping is not a valid idea
C14_Witness ==
    \E t \in Callers :
        /\ ParseFailed(t)
        /\ run[t].workflow = "full_validation"
        /\ run[t].outcome = Raised(Exc("ValidationError", "validation error for StartupIdea"))
        /\ config.save_intermediate_results

\* the step is an execute_workflow call with an unregistered name
NotFoundStep(t) ==
    /\ run'[t] # run[t]
    /\ run'[t].workflow \notin workflows
    /\ run'[t].pc = "done"

\* C15: execute_workflow with an unregistered name raises the not-found error,
\* calls no procedure and no collaborator, and leaves the engine as it was:
\* current_workflow stays None and the previous run's results are kept.
C15_NotFoundLeavesState ==
    [][\A t \in Callers :
          NotFoundStep(t) =>
             /\ run'[t].outcome = Raised(WorkflowNotFound(run'[t].workflow))
             /\ run'[t].proc = NoOutcome
             /\ \A a \in AgentNames : run'[t].calls[a] = 0
             /\ current_workflow = "None" /\ current_workflow' = "None"
             /\ results_store' = results_store]_vars

\* the not-found error was raised while the previous run's results were in place
C15_Witness ==
    \E t \in Callers :
        /\ run[t].workflow = "deep_dive"
        /\ run[t].outcome = Raised(WorkflowNotFound("deep_dive"))
        /\ Has(results_store, "final_result")
        /\ current_workflow = "None"

TimedOut(t, a) == Finished(t, a) /\ Guards(t)[a].ending = Raised(TimeoutError)

\* C16 as claimed: when every attempt timed out, the failure result's error
\* message says so.
C16_TimeoutMessage ==
    \A t \in Callers : \A a \in AgentNames :
        TimedOut(t, a) =>
           LET msg == Guards(t)[a].result.content["error"]
           IN \/ Contains(msg, "imeout")
              \/ Contains(msg, "imed out")
              \/ Contains(msg, "ime out")

ReportedError(t, a) == Finished(t, a) /\ Guards(t)[a].ending = Returned(StatusError)

\* C17 as claimed: a stage whose agent returns a mapping with status "error" is
\* a failed stage: its guard result has success = false and the full_validation
\* run ends there with an error report.
C17_StatusErrorFails ==
    \A t \in Callers : \A a \in AgentNames :
        (run[t].workflow = "full_validation" /\ ReportedError(t, a)) =>
           /\ Guards(t)[a].result.success = FALSE
           /\ run[t].pc = "done"
           /\ run[t].outcome.kind = "returned"
           /\ run[t].outcome.value["success"] = FALSE

AllStagesSucceeded(t) ==
    /\ run[t].workflow = "full_validation"
    /\ \A k \in 1..4 : Finished(t, StageOrder[k]) /\ Guards(t)[StageOrder[k]].result.success

\* C18: a checkpoint file that cannot be written never aborts the run:
\* _save_result raises nothing (the run never ends with a write error unless the
\* report file under reports/ failed), every value handed to _save_result is in
\* the results mapping under its key, and a run that returns after its four
\* stages succeeded returns the full report built from the four payloads.
C18_WriteFailureTolerated ==
    \A t \in Callers :
        run[t].workflow \in workflows =>
           /\ \A key \in DOMAIN run[t].saved :
                 Has(results_store, key) /\ results_store[key] = run[t].saved[key]
           /\ (run[t].warned /\ run[t].pc = "done" /\ run[t].proc.kind = "raised") =>
                 run[t].proc.exc.type # "OSError" \/ run[t].proc.exc = ReportWriteError
           /\ (run[t].warned /\ run[t].pc = "done" /\ run[t].proc.kind = "returned"
                  /\ AllStagesSucceeded(t)) =>
                 LET d == run[t].data
                     score == _calculate_validation_score(d["market_data"],
                                  d["competitor_data"], d["persona_data"], d["mvp_data"])
                 IN /\ run[t].outcome.value =
                          _generate_validation_report(Idea, d["market_data"],
                              d["competitor_data"], d["persona_data"], d["mvp_data"],
                              score.value)
                    /\ results_store["final_result"] = run[t].outcome.value

\* the write of a stage checkpoint failed and the run went on to return its
\* full report
C18_Witness ==
    \E t \in Callers :
        /\ run[t].warned
        /\ run[t].pc = "done"
        /\ run[t].outcome.kind = "returned"
        /\ "validation_score" \in DOMAIN run[t].outcome.value
        /\ results_store["market_research"] = MarketStrong

\* C19 as claimed: in a full_validation run whose four stages succeeded and
\* whose report was synthesized, no failure to persist an artifact escalates: the
\* report is returned to the caller of execute_workflow.
C19_PersistenceNeverEscalates ==
    \A t \in Callers :
        (AllStagesSucceeded(t) /\ run[t].scored /\ run[t].pc = "done") =>
           /\ run[t].outcome.kind = "returned"
           /\ "validation_score" \in DOMAIN run[t].outcome.value

Quiet == \A t \in Callers : run[t].pc \in {"idle", "done"}

\* C20 as claimed: when execute_workflow has ended, the current workflow name
\* and the results mapping are both cleared.
C20_Original ==
    Quiet => (current_workflow = "None" /\ results_store = EmptyDict)

\* C20 amended: when execute_workflow has ended, by returning or by raising, the
\* current workflow name is cleared but the results mapping is not: it keeps
\* exactly what the run saved, readable through get_result, until the next
\* execute_workflow call with a registered name resets it.
C20_ContextLifetime ==
    /\ Quiet => current_workflow = "None"
    /\ \A t \in Callers :
          (run[t].pc = "done" /\ run[t].workflow \in workflows) =>
             /\ results_store = run[t].saved
             /\ \A key \in DOMAIN run[t].saved : get_result(key) = run[t].saved[key]
    /\ \A t \in Callers :
          (run[t].pc \notin {"idle", "done"}) =>
             DOMAIN results_store = DOMAIN run[t].saved

\* a run ended by raising and its stage results are still readable
C20_Witness ==
    \E t \in Callers :
        /\ run[t].pc = "done"
        /\ run[t].outcome.kind = "raised"
        /\ current_workflow = "None"
        /\ get_result("market_research") = MarketStrong

TotalCalls(t) ==
    run[t].calls[StageOrder[1]] + run[t].calls[StageOrder[2]]
      + run[t].calls[StageOrder[3]] + run[t].calls[StageOrder[4]]

\* C21: in one execute_workflow call each collaborator is the target of at most
\* one run_agent invocation, which calls process at most max_retries times; a
\* failed stage is not invoked again and the pipeline is not restarted, so one
\* run makes at most 4 * max_retries collaborator calls.
C21_RetriesPerCallOnly ==
    \A t \in Callers :
        /\ \A a \in AgentNames :
              /\ run[t].invoked[a] <= 1
              /\ run[t].calls[a] <= config.max_retries * run[t].invoked[a]
              /\ (Finished(t, a) /\ ~Guards(t)[a].result.success) =>
                    (run[t].invoked[a] = 1 /\ run[t].pc = "done")
        /\ TotalCalls(t) <= 4 * config.max_retries
        /\ run[t].workflow \in {"market_only", "mvp_only"} => TotalCalls(t) <= config.max_retries

\* a full_validation run in which every stage needed all its attempts
C21_Witness ==
    \E t \in Callers :
        /\ run[t].workflow = "full_validation"
        /\ run[t].pc = "done"
        /\ config.max_retries = MaxRetriesBound
        /\ TotalCalls(t) = 4 * MaxRetriesBound

Without(d, k) == [x \in DOMAIN d \ {k} |-> d[x]]
InRange(n) == 0 <= n /\ n <= 100

\* C22 as claimed: a negative growth rate lowers the score by 10, all other
\* fields being equal and the clamp not applying.
C22_NegativeGrowth ==
    (/\ score_in.phase = "done"
     /\ score_out.kind = "returned"
     /\ Has(score_in.market_data, "market_trends")
     /\ Has(score_in.market_data["market_trends"], "growth_rate")
     /\ score_in.market_data["market_trends"]["growth_rate"] < 0) =>
        LET others == ScoreSum([market_trends |->
                                   Without(score_in.market_data["market_trends"], "growth_rate")],
                               score_in.competitor_data, score_in.persona_data,
                               score_in.mvp_data)
        IN InRange(others - 10) => score_out.value = others - 10

\* C23 as claimed: a competitor payload that lists at least one market gap gains
\* 5 (and 5 more for over 3 gaps), with or without a competitor list, the clamp
\* not applying.
C23_GapsIndependent ==
    (/\ score_in.phase = "done"
     /\ score_out.kind = "returned"
     /\ Has(score_in.competitor_data, "market_gaps")
     /\ Len(score_in.competitor_data["market_gaps"]) >= 1) =>
        LET others == ScoreSum(score_in.market_data,
                               Without(score_in.competitor_data, "market_gaps"),
                               score_in.persona_data, score_in.mvp_data)
            gain == 5 + (IF Len(score_in.competitor_data["market_gaps"]) > 3 THEN 5 ELSE 0)
        IN InRange(others + gain) => score_out.value = others + gain

\* 50 plus the adjustment of every scored field that is present
PresentFieldsSum(s) ==
    50 + MarketAdj(s.market_data) + CompetitorAdj(s.competitor_data)
       + PersonaAdj(s.persona_data)
       + (IF Has(s.mvp_data, "development_time") /\ Has(s.mvp_data["development_time"], "weeks")
          THEN DevTimeAdj(s.mvp_data["development_time"]["weeks"]) ELSE 0)
       + (IF Has(s.mvp_data, "cost_estimate") /\ Has(s.mvp_data["cost_estimate"], "min")
          THEN MinCostAdj(s.mvp_data["cost_estimate"]["min"]) ELSE 0)

\* C24 as claimed: absent fields contribute nothing and raise no error: the score
\* is 50 plus the adjustments of the fields that are present (50 exactly for four
\* empty payloads), also for a cost estimate with no minimum and a
\* development_time with no weeks.
C24_AbsentFieldsNeutral ==
    score_in.phase = "done" =>
       /\ score_out.kind = "returned"
       /\ InRange(PresentFieldsSum(score_in)) => score_out.value = PresentFieldsSum(score_in)

\* a guard checkpoint of the still-running run t is missing from the results
\* mapping under its key "W_A" (skipped, written under another name, or wiped)
Damaged(t) ==
    /\ InFlight(run[t])
    /\ config.save_intermediate_results
    /\ \E a \in DOMAIN Guards(t) :
          /\ Guards(t)[a].ending.kind = "returned"
          /\ \/ ~Has(results_store, CheckpointKey(t, a))
             \/ results_store[CheckpointKey(t, a)] # Guards(t)[a].ending.value

\* C25: interleaved execute_workflow calls on one orchestrator are unsafe, and
\* serialized ones are safe: a run that is still executing finds
\* current_workflow changed under it, or one of its guard checkpoints skipped,
\* mis-keyed or wiped, only if another caller's run took a step during it.
C25_UnsafeOnlyWhenInterleaved ==
    \A t \in Callers :
        (InFlight(run[t]) /\ ~run[t].overlapped) =>
           /\ current_workflow = run[t].workflow
           /\ ~Damaged(t)
           /\ DOMAIN results_store = DOMAIN run[t].saved

\* c1 is still running full_validation: its market checkpoint was wiped when c2
\* started market_only, and its competitor checkpoint went under c2's name
C25_Witness ==
    /\ InFlight(run["c1"])
    /\ run["c1"].workflow = "full_validation"
    /\ run["c1"].overlapped
    /\ Damaged("c1")
    /\ Finished("c1", "competitor_analyzer")
    /\ ~Has(results_store, "full_validation_market_researcher")
    /\ ~Has(results_store, "full_validation_competitor_analyzer")
    /\ Has(results_store, "market_only_competitor_analyzer")

\* the checkpoint files a finished run wrote into the output directory
FilesWritten(t) ==
    IF config.save_intermediate_results /\ ~run[t].warned
    THEN {file_path(key) : key \in DOMAIN run[t].saved}
    ELSE {}

\* C26 as claimed: across serialized runs that share the output directory, no
\* run writes a checkpoint file under a name an earlier run wrote.
C26_UniqueNames ==
    \A t, u \in Callers :
        (/\ t # u
         /\ run[t].pc = "done" /\ run[u].pc = "done"
         /\ ~run[t].overlapped /\ ~run[u].overlapped) =>
            FilesWritten(t) \cap FilesWritten(u) = {}

ReachedUnregistered(t, a) ==
    /\ run[t].workflow \in workflows
    /\ run[t].invoked[a] >= 1
    /\ a \notin agents

\* C27: when a pipeline reaches a stage whose agent is not registered, run_agent
\* raises the not-found error with no attempt made; no guard result and no error
\* report exist for it: execute_workflow raises to its caller and the engine is
\* idle afterwards.
C27_UnknownAgentRaises ==
    \A t \in Callers : \A a \in AgentNames :
        ReachedUnregistered(t, a) =>
           /\ run[t].calls[a] = 0
           /\ ~Finished(t, a)
           /\ run[t].pc = "done"
           /\ run[t].proc = Raised(AgentNotFound(a))
           /\ run[t].outcome = run[t].proc
           /\ current_workflow = "None"
           /\ ~Has(results_store, "final_result")

\* the competitor stage was reached after a successful market stage and its
\* agent was not registered
C27_Witness ==
    \E t \in Callers :
        /\ ReachedUnregistered(t, "competitor_analyzer")
        /\ Finished(t, "market_researcher")
        /\ run[t].outcome.kind = "raised"

StageIndex(a) == CHOOSE k \in 1..4 : StageOrder[k] = a
Succeeded(t, k) == Finished(t, StageOrder[k]) /\ Guards(t)[StageOrder[k]].result.success
Payload(t, k) == Guards(t)[StageOrder[k]].result.content

\* the input_data stage k of full_validation must get: the idea and the payloads
\* of all earlier stages
ExpectedInput(t, k) ==
    CASE k = 1 -> [idea |-> Idea, search_terms |-> <<>>]
      [] k = 2 -> [idea |-> Idea, market_data |-> Payload(t, 1)]
      [] k = 3 -> [idea |-> Idea, market_data |-> Payload(t, 1),
                   competitor_data |-> Payload(t, 2)]
      [] k = 4 -> [idea |-> Idea, market_data |-> Payload(t, 1),
                   competitor_data |-> Payload(t, 2), customer_personas |-> Payload(t, 3)]

\* C28: in a full_validation run the collaborators are invoked in the order
\* market, competitor, persona, mvp, one at a time; each only after every earlier
\* stage returned success and with the idea and all earlier payloads as input; the
\* gate is consulted only after the persona stage succeeded, before the mvp stage,
\* and only with human_in_the_loop set; with it unset a persona success is
\* followed by the mvp stage at once.
C28_StagesInOrder ==
    \A t \in Callers :
        run[t].workflow = "full_validation" =>
           /\ \A k \in 1..4 :
                 run[t].invoked[StageOrder[k]] >= 1 =>
                    /\ \A j \in 1..(k - 1) : Succeeded(t, j)
                    /\ run[t].sent[StageOrder[k]] = ExpectedInput(t, k)
           /\ run[t].pc = "attempt" =>
                 /\ ~Finished(t, run[t].stage)
                 /\ \A j \in (StageIndex(run[t].stage) + 1)..4 :
                       run[t].invoked[StageOrder[j]] = 0
           /\ run[t].asked =>
                 /\ config.human_in_the_loop
                 /\ Succeeded(t, 3)
           /\ run[t].pc = "gate" =>
                 (run[t].asked /\ run[t].invoked["mvp_planner"] = 0)
           /\ run[t].invoked["mvp_planner"] >= 1 =>
                 (config.human_in_the_loop => (run[t].asked /\ run[t].approval = "proceed"))
           /\ (~config.human_in_the_loop /\ Succeeded(t, 3)) =>
                 (~run[t].asked /\ run[t].invoked["mvp_planner"] = 1)

\* a run passed the gate and finished all four stages
C28_Witness ==
    \E t \in Callers :
        /\ run[t].workflow = "full_validation"
        /\ config.human_in_the_loop
        /\ run[t].approval = "proceed"
        /\ \A k \in 1..4 : Succeeded(t, k)
        /\ run[t].sent["mvp_planner"]["customer_personas"] = PersonaKeen

\* C30 as claimed: run_agent returns success = false only after max_retries
\* failed attempts; an attempt that returned never gives a success = false result.
C30_Original ==
    \A t \in Callers : \A a \in DOMAIN Guards(t) :
        ~Guards(t)[a].result.success =>
           /\ Guards(t)[a].ending.kind = "raised"
           /\ Guards(t)[a].attempts = config.max_retries

\* C30 amended: run_agent returns success = false either after max_retries
\* failed attempts, or when an attempt returned an AgentOutput whose own success
\* flag is false, which is handed back unchanged at once; an attempt that returned
\* a plain mapping never gives a success = false result.
C30_FailureOrigins ==
    \A t \in Callers : \A a \in DOMAIN Guards(t) :
        ~Guards(t)[a].result.success =>
           \/ /\ Guards(t)[a].ending.kind = "raised"
              /\ Guards(t)[a].attempts = config.max_retries
           \/ /\ Guards(t)[a].ending.kind = "returned"
              /\ IsAgentOutput(Guards(t)[a].ending.value)
              /\ Guards(t)[a].ending.value.success = FALSE
              /\ Guards(t)[a].result = Guards(t)[a].ending.value

\* a first attempt returned AgentOutput(success = false) with attempts to spare
C30_Witness ==
    \E t \in Callers : \E a \in DOMAIN Guards(t) :
        /\ ~Guards(t)[a].result.success
        /\ Guards(t)[a].ending.kind = "returned"
        /\ Guards(t)[a].attempts = 1
        /\ config.max_retries = MaxRetriesBound

\* a run_agent invocation of caller t has begun and has not returned
Pending(t) == run[t].pc = "attempt" /\ ~Finished(t, run[t].stage)

\* C29: if every attempt ends and the human eventually makes a valid choice,
\* every run_agent invocation terminates and every execute_workflow call that is
\* under way ends, with the engine idle again.
C29_EveryRunEnds ==
    /\ InFlight(run[SerialCaller])
          ~> (run[SerialCaller].pc = "done" /\ current_workflow = "None")
    /\ Pending(SerialCaller) ~> ~Pending(SerialCaller)

\* a run that retried, waited for the human and then ended
C29_Witness ==
    \E t \in Callers :
        /\ run[t].pc = "done"
        /\ current_workflow = "None"
        /\ run[t].asked /\ gate.waited
        /\ run[t].calls["market_researcher"] = MaxRetriesBound
        /\ Finished(t, "mvp_planner")

====
